---- MODULE Spec2Model ----
(***************************************************************************)
(* A model of the WHERE-condition core of rustic-sql: the Condition tree   *)
(* (src/clauses/condition.rs), its evaluator Condition::execute, the       *)
(* simple-condition parser new_simple_from_tokens, the WHERE clause        *)
(* (src/clauses/where_sql.rs), the tokenizer (src/tokens.rs) and the       *)
(* DELETE statement (src/clauses/delete_sql.rs).                           *)
(*                                                                         *)
(* Rust strings are modelled as sequences of one-character strings, so     *)
(* that the byte-wise ordering of String and the parsing of i32 are        *)
(* computed, not assumed.                                                  *)
(***************************************************************************)
EXTENDS Integers, Sequences, FiniteSets, TLC

VARIABLES
    tokens,     \* the token slice handed to a parser (&[&str])
    pos,        \* the caller-owned cursor (*pos)
    cond,       \* Result<Condition, SqlError> of the last construction, or Pending
    register,   \* the row: a function from field name to value (HashMap<String,String>)
    result,     \* Result<bool, SqlError> of Condition::execute, or Pending
    string,     \* tokens_from_query: the query text (its parameter string)
    index,      \* tokens_from_query: the scanning index
    table,      \* the table file read by a statement: its lines, the header first
    statement,  \* the fields of the statement besides its where_clause
    out         \* what tokens_from_query or a statement's apply_to_table
                \* returned, or Pending

vars == <<tokens, pos, cond, register, result, string, index, table, statement, out>>

----------------------------------------------------------------------------
(* Bounds of the model.                                                    *)

\* Greatest nesting depth of the Condition trees built with new_complex.
MaxDepth == 2

\* Greatest length of the generated field values and literals.
MaxStrLen == 2

----------------------------------------------------------------------------
(* Strings.                                                                *)

\* The printable ASCII characters in code order, from code 32 (the grave
\* accent, code 96, is spelled out: no string of the model holds it).
Ascii ==
    << " ", "!", "\"", "#", "$", "%", "&", "'", "(", ")", "*", "+", ",", "-", ".", "/",
       "0", "1", "2", "3", "4", "5", "6", "7", "8", "9", ":", ";", "<", "=", ">", "?",
       "@", "A", "B", "C", "D", "E", "F", "G", "H", "I", "J", "K", "L", "M", "N", "O",
       "P", "Q", "R", "S", "T", "U", "V", "W", "X", "Y", "Z", "[", "\\", "]", "^", "_",
       "(grave)", "a", "b", "c", "d", "e", "f", "g", "h", "i", "j", "k", "l", "m", "n", "o",
       "p", "q", "r", "s", "t", "u", "v", "w", "x", "y", "z", "{", "|", "}", "~" >>

\* The byte of an ASCII character.
CharCode(c) == 31 + (CHOOSE i \in 1..Len(Ascii) : Ascii[i] = c)

Digits == {"0", "1", "2", "3", "4", "5", "6", "7", "8", "9"}

DigitVal(c) == CharCode(c) - CharCode("0")

\* i32::MAX and i32::MIN.
I32Max == 2147483647
I32Min == -2147483647 - 1

\* x < y on String: byte-wise lexicographic order, a proper prefix is smaller.
StrLess(x, y) ==
    \E i \in 1..Len(y) :
        /\ i - 1 <= Len(x)
        /\ \A j \in 1..(i - 1) : x[j] = y[j]
        /\ i <= Len(x) => CharCode(x[i]) < CharCode(y[i])

\* x > y on String.
StrGreater(x, y) == StrLess(y, x)

\* x == y on String.
StrEq(x, y) == x = y

\* The digits of an i32 literal accumulated left to right with checked
\* arithmetic: acc * 10 + d for a positive literal, acc * 10 - d for a negative
\* one; "overflow" when the next step leaves the range of i32.
RECURSIVE AccumulateDigits(_, _, _)
AccumulateDigits(ds, acc, positive) ==
    IF ds = <<>> THEN [ok |-> TRUE, val |-> acc]
    ELSE LET d == DigitVal(Head(ds)) IN
         IF positive
         THEN IF acc > (I32Max - d) \div 10
              THEN [ok |-> FALSE, val |-> 0]
              ELSE AccumulateDigits(Tail(ds), acc * 10 + d, positive)
         ELSE IF acc < (I32Min + d + 9) \div 10
              THEN [ok |-> FALSE, val |-> 0]
              ELSE AccumulateDigits(Tail(ds), acc * 10 - d, positive)

\* token.parse::<i32>(): an optional sign, then at least one decimal digit and
\* nothing else, the value within the range of i32.
ParseI32(token) ==
    LET signed == token # <<>> /\ Head(token) \in {"+", "-"}
        ds     == IF signed THEN Tail(token) ELSE token
    IN  IF ds = <<>> \/ \E i \in 1..Len(ds) : ds[i] \notin Digits
        THEN [ok |-> FALSE, val |-> 0]
        ELSE AccumulateDigits(ds, 0, ~(signed /\ Head(token) = "-"))

is_number_any_digits(token) ==
    LET ds == IF token # <<>> /\ Head(token) \in {"+", "-"} THEN Tail(token) ELSE token
    IN  ds # <<>> /\ \A i \in 1..Len(ds) : ds[i] \in Digits

\* utils::is_number
is_number(token) == ParseI32(token).ok

----------------------------------------------------------------------------
(* Errors, results, operators and conditions.                              *)

InvalidSyntax == "InvalidSyntax"
Error == "Error"

Ok(v) == [ok |-> TRUE, val |-> v]
Err(e) == [ok |-> FALSE, err |-> e]

\* Operator
Equal == "Equal"
Greater == "Greater"
Lesser == "Lesser"
Operator == {Equal, Greater, Lesser}

\* LogicalOperator
And == "And"
Or == "Or"
Not == "Not"
LogicalOperator == {And, Or, Not}

\* Option::None for the left operand of a Complex condition.
None == [type |-> "None"]

\* Condition::Simple
Simple(field, operator, value) ==
    [type |-> "Simple", field |-> field, operator |-> operator, value |-> value]

\* Condition::Complex
Complex(left, operator, right) ==
    [type |-> "Complex", left |-> left, operator |-> operator, right |-> right]

new_complex_drops_left(left, operator, right) == Complex(None, operator, right)

new_complex_swapped(left, operator, right) ==
    IF left.type = "None" THEN Complex(left, operator, right)
    ELSE Complex(right, operator, left)

\* Condition::new_complex
new_complex(left, operator, right) == Complex(left, operator, right)

\* The nesting depth of a condition: 0 for a Simple leaf.
RECURSIVE Depth(_)
Depth(c) ==
    IF c.type = "Simple" THEN 0
    ELSE LET l == IF c.left.type = "None" THEN 0 ELSE Depth(c.left)
             r == Depth(c.right)
         IN  1 + (IF l > r THEN l ELSE r)

----------------------------------------------------------------------------
(* Condition::new_simple_from_tokens.                                      *)

T_WHERE == <<"W", "H", "E", "R", "E">>
T_eq == <<"=">>
T_gt == <<">">>
T_lt == <<"<">>

new_simple_no_lesser(field, operator, value) ==
    CASE operator = T_eq -> Ok(Simple(field, Equal, value))
      [] operator = T_gt -> Ok(Simple(field, Greater, value))
      [] OTHER           -> Err(InvalidSyntax)

\* Condition::new_simple
new_simple(field, operator, value) ==
    CASE operator = T_eq -> Ok(Simple(field, Equal, value))
      [] operator = T_gt -> Ok(Simple(field, Greater, value))
      [] operator = T_lt -> Ok(Simple(field, Lesser, value))
      [] OTHER           -> Err(InvalidSyntax)

\* tokens.get(i) is Some: i is a 0-based index into the slice.
HasToken(toks, i) == i < Len(toks)

\* tokens[i], i a 0-based index.
TokenAt(toks, i) == toks[i + 1]

new_simple_from_tokens_short_advance(toks, p) ==
    IF HasToken(toks, p) /\ HasToken(toks, p + 1) /\ HasToken(toks, p + 2)
    THEN [res |-> new_simple(TokenAt(toks, p), TokenAt(toks, p + 1),
                             TokenAt(toks, p + 2)),
          pos |-> p + 2]
    ELSE [res |-> Err(InvalidSyntax),
          pos |-> IF Len(toks) > p THEN Len(toks) ELSE p]

new_simple_from_tokens_rewinds(toks, p) ==
    IF HasToken(toks, p) /\ HasToken(toks, p + 1) /\ HasToken(toks, p + 2)
    THEN [res |-> new_simple(TokenAt(toks, p), TokenAt(toks, p + 1),
                             TokenAt(toks, p + 2)),
          pos |-> p + 3]
    ELSE [res |-> Err(InvalidSyntax), pos |-> p]

\* Condition::new_simple_from_tokens: the result and the cursor it leaves.
new_simple_from_tokens(toks, p) ==
    IF HasToken(toks, p)
    THEN IF HasToken(toks, p + 1)
         THEN IF HasToken(toks, p + 2)
              THEN [res |-> new_simple(TokenAt(toks, p), TokenAt(toks, p + 1),
                                       TokenAt(toks, p + 2)),
                    pos |-> p + 3]
              ELSE [res |-> Err(InvalidSyntax), pos |-> p + 2]
         ELSE [res |-> Err(InvalidSyntax), pos |-> p + 1]
    ELSE [res |-> Err(InvalidSyntax), pos |-> p]

----------------------------------------------------------------------------
(* Condition::execute.                                                     *)

\* Exactly one of the row value x and the literal y is a number.
mixed_types(x, y) ==
    (is_number(y) /\ ~is_number(x)) \/ (~is_number(y) /\ is_number(x))

compare_numerically(operator, x, y) ==
    IF is_number(x) /\ is_number(y)
    THEN CASE operator = Lesser  -> ParseI32(x).val < ParseI32(y).val
           [] operator = Greater -> ParseI32(x).val > ParseI32(y).val
           [] operator = Equal   -> ParseI32(x).val = ParseI32(y).val
    ELSE CASE operator = Lesser  -> StrLess(x, y)
           [] operator = Greater -> StrGreater(x, y)
           [] operator = Equal   -> StrEq(x, y)

\* match operator { Lesser => x < y, Greater => x > y, Equal => x == y }
compare(operator, x, y) ==
    CASE operator = Lesser  -> StrLess(x, y)
      [] operator = Greater -> StrGreater(x, y)
      [] operator = Equal   -> StrEq(x, y)

execute_simple_coercing(field, operator, value, reg) ==
    IF field \in DOMAIN reg
    THEN Ok(compare(operator, reg[field], value))
    ELSE Err(Error)

execute_simple_absent_is_false(field, operator, value, reg) ==
    IF field \in DOMAIN reg
    THEN IF mixed_types(reg[field], value)
         THEN Err(InvalidSyntax)
         ELSE Ok(compare(operator, reg[field], value))
    ELSE Ok(FALSE)

\* The Simple arm of execute.
execute_simple(field, operator, value, reg) ==
    IF field \in DOMAIN reg
    THEN IF mixed_types(reg[field], value)
         THEN Err(InvalidSyntax)
         ELSE Ok(compare(operator, reg[field], value))
    ELSE Err(Error)

execute_not_keeps(right_result) ==
    IF ~right_result.ok THEN right_result ELSE Ok(right_result.val)

\* The Not arm of execute: right.execute(register)? negated.
execute_not(right_result) ==
    IF ~right_result.ok THEN right_result ELSE Ok(~right_result.val)

execute_or_as_and(left, left_result, right_result) ==
    IF left.type # "None"
    THEN IF ~left_result.ok THEN left_result
         ELSE IF ~right_result.ok THEN right_result
         ELSE Ok(left_result.val /\ right_result.val)
    ELSE Err(Error)

\* The Or arm of execute: both operands evaluated with ?, then ||.
execute_or(left, left_result, right_result) ==
    IF left.type # "None"
    THEN IF ~left_result.ok THEN left_result
         ELSE IF ~right_result.ok THEN right_result
         ELSE Ok(left_result.val \/ right_result.val)
    ELSE Err(Error)

execute_and_short_circuit(left, left_result, right_result) ==
    IF left.type # "None"
    THEN IF ~left_result.ok THEN left_result
         ELSE IF ~left_result.val THEN Ok(FALSE)
         ELSE IF ~right_result.ok THEN right_result
         ELSE Ok(right_result.val)
    ELSE Err(Error)

execute_and_right_first(left, left_result, right_result) ==
    IF ~right_result.ok THEN right_result
    ELSE IF left.type # "None"
    THEN IF ~left_result.ok THEN left_result
         ELSE Ok(left_result.val /\ right_result.val)
    ELSE Err(Error)

\* The And arm of execute: both operands evaluated with ?, then &&.
execute_and(left, left_result, right_result) ==
    IF left.type # "None"
    THEN IF ~left_result.ok THEN left_result
         ELSE IF ~right_result.ok THEN right_result
         ELSE Ok(left_result.val /\ right_result.val)
    ELSE Err(Error)

\* Condition::execute
RECURSIVE execute(_, _)
execute(self, reg) ==
    IF self.type = "Simple"
    THEN execute_simple(self.field, self.operator, self.value, reg)
    ELSE CASE self.operator = Not ->
                execute_not(execute(self.right, reg))
           [] self.operator = Or ->
                execute_or(self.left, execute(self.left, reg), execute(self.right, reg))
           [] self.operator = And ->
                execute_and(self.left, execute(self.left, reg), execute(self.right, reg))

----------------------------------------------------------------------------
(* The inputs of the evaluator.                                            *)

S_age == <<"a", "g", "e">>
S_name == <<"n", "a", "m", "e">>
S_city == <<"c", "i", "t", "y">>
S_24 == <<"2", "4">>
S_18 == <<"1", "8">>
S_40 == <<"4", "0">>
S_abc == <<"a", "b", "c">>
S_Alen == <<"A", "l", "e", "n">>
S_Gaiman == <<"G", "a", "i", "m", "a", "n">>

\* The rows the trees are evaluated against.
Registers ==
    { [f \in {S_age, S_name} |-> IF f = S_age THEN S_24 ELSE S_Alen],
      [f \in {S_age, S_city} |-> IF f = S_age THEN S_abc ELSE S_Gaiman] }

\* The operands the trees are built from: four leaves, which against the first
\* row evaluate to true, to false, to the missing-data error and to
\* InvalidSyntax, and one Or node.
OperandConds ==
    { Simple(S_age, Greater, S_18),
      Simple(S_age, Greater, S_40),
      Simple(S_city, Equal, S_Gaiman),
      Simple(S_age, Equal, S_abc),
      Complex(Simple(S_age, Greater, S_40), Or, Simple(S_age, Greater, S_18)) }

\* No condition built, or no evaluation run, yet.
Pending == Err("Pending")

\* No table file is read.
NoTable == <<>>

\* A statement with no field besides its where_clause, or no statement.
NoFields == <<>>

\* The tokenizer and the statements are not part of the run.
NoStatement ==
    /\ string = <<>>
    /\ index = 0
    /\ table = NoTable
    /\ statement = NoFields
    /\ out = Pending

----------------------------------------------------------------------------
(* Building a tree with new_complex and evaluating it.                     *)

Init ==
    /\ tokens = <<>>
    /\ pos = 0
    /\ cond \in {Ok(c) : c \in OperandConds}
    /\ register \in Registers
    /\ result = Pending
    /\ NoStatement

\* The caller wraps the condition built so far: as the left operand of a new
\* node, or as its right operand with any left operand, None included.
NewComplex ==
    /\ result = Pending
    /\ cond.ok
    /\ Depth(cond.val) < MaxDepth
    /\ \E operator \in LogicalOperator, other \in OperandConds \cup {None},
          as_left \in BOOLEAN :
          /\ as_left => other # None
          /\ cond' = Ok(IF as_left
                        THEN new_complex(cond.val, operator, other)
                        ELSE new_complex(other, operator, cond.val))
    /\ UNCHANGED <<tokens, pos, register, result, string, index, table, statement, out>>

\* condition.execute(&register)
Execute ==
    /\ result = Pending
    /\ cond.ok
    /\ result' = execute(cond.val, register)
    /\ UNCHANGED <<tokens, pos, cond, register, string, index, table, statement, out>>

Next == NewComplex \/ Execute

Spec == Init /\ [][Next]_vars

----------------------------------------------------------------------------
(* Parsing one simple condition from three tokens and evaluating it.       *)

S_9 == <<"9">>
S_10 == <<"1", "0">>
T_ge == <<">", "=">>

\* The characters the generated values are made of.
GenChars == {"0", "1", "9", "a", "-"}

\* Every string over GenChars of length at most n.
RECURSIVE StringsUpTo(_)
StringsUpTo(n) ==
    IF n = 0 THEN {<<>>}
    ELSE LET shorter == StringsUpTo(n - 1)
         IN  shorter \cup {Append(s, c) : s \in shorter, c \in GenChars}

\* The row values and the literals of the simple conditions.
Values == StringsUpTo(MaxStrLen) \cup {S_24, S_18, S_40, S_abc}

\* field, operator, value; or a prefix of them when tokens are missing. No
\* token is empty: tokens_from_query retains the non-empty tokens only.
SimpleTokens ==
    { SubSeq(<<f, o, v>>, 1, n) :
        f \in {S_age, S_city}, o \in {T_eq, T_gt, T_lt, T_ge},
        v \in Values \ {<<>>}, n \in 0..3 }

\* Rows that hold the field age and no other.
SimpleRegisters == { [f \in {S_age} |-> x] : x \in Values }

InitSimple ==
    /\ tokens \in SimpleTokens
    /\ pos = 0
    /\ cond = Pending
    /\ register \in SimpleRegisters
    /\ result = Pending
    /\ NoStatement

\* Condition::new_simple_from_tokens(&tokens, &mut pos)
NewSimpleFromTokens ==
    /\ cond = Pending
    /\ LET r == new_simple_from_tokens(tokens, pos)
       IN  cond' = r.res /\ pos' = r.pos
    /\ UNCHANGED <<tokens, register, result, string, index, table, statement, out>>

NextSimple == NewSimpleFromTokens \/ Execute

SpecSimple == InitSimple /\ [][NextSimple]_vars

----------------------------------------------------------------------------
(* Parsing one simple condition from a cursor inside a token slice.        *)

\* The literals of the slices.
CursorValues == {S_18, S_abc}

\* WHERE, field, operator, value, or a prefix of them; and the same without
\* the keyword.
CursorTokens ==
    { SubSeq(<<T_WHERE, f, o, v>>, k, n) :
        f \in {S_age, S_city}, o \in {T_eq, T_gt, T_lt, T_ge},
        v \in CursorValues, k \in 1..2, n \in 0..4 }

\* The cursor starts at a token of the slice or right after its last token.
InitCursor ==
    /\ tokens \in CursorTokens
    /\ pos \in 0..Len(tokens)
    /\ cond = Pending
    /\ register \in Registers
    /\ result = Pending
    /\ NoStatement

SpecCursor == InitCursor /\ [][NextSimple]_vars

----------------------------------------------------------------------------
(* The recursive-descent parser of conditions and Where::new_from_tokens.  *)

T_AND == <<"A", "N", "D">>
T_OR == <<"O", "R">>
T_NOT == <<"N", "O", "T">>
T_LPAREN == <<"(">>
T_RPAREN == <<")">>

\* utils::is_and, is_or, is_not, is_left_paren, is_right_paren
is_and(token) == token = T_AND
is_or(token) == token = T_OR
is_not(token) == token = T_NOT
is_left_paren_never(token) == FALSE

is_left_paren(token) == token = T_LPAREN
is_right_paren(token) == token = T_RPAREN

\* The grammar of the parser, one operator per precedence level; each returns
\* the result and the cursor it leaves:
\*   or_expr  := and_expr ( "OR" and_expr )*
\*   and_expr := unary ( "AND" unary )*
\*   unary    := "NOT" unary | "(" or_expr ")" | simple
RECURSIVE parse_or(_, _)
RECURSIVE parse_or_rest(_, _, _)
RECURSIVE parse_and(_, _)
RECURSIVE parse_and_rest(_, _, _)
RECURSIVE parse_unary(_, _)

\* A group: the opening marker is at p; a full expression and the closing
\* marker follow.
parse_group(toks, p) ==
    LET inner == parse_or(toks, p + 1)
    IN  IF ~inner.res.ok THEN inner
        ELSE IF HasToken(toks, inner.pos) /\ is_right_paren(TokenAt(toks, inner.pos))
        THEN [res |-> inner.res, pos |-> inner.pos + 1]
        ELSE [res |-> Err(InvalidSyntax), pos |-> inner.pos]

parse_unary(toks, p) ==
    IF HasToken(toks, p) /\ is_not(TokenAt(toks, p))
    THEN LET operand == parse_unary(toks, p + 1)
         IN  IF ~operand.res.ok THEN operand
             ELSE [res |-> Ok(new_complex(None, Not, operand.res.val)),
                   pos |-> operand.pos]
    ELSE IF HasToken(toks, p) /\ is_left_paren(TokenAt(toks, p))
    THEN parse_group(toks, p)
    ELSE new_simple_from_tokens(toks, p)

\* ( "AND" unary )* with the subtree accumulated so far as left operand.
parse_and_rest(toks, p, left) ==
    IF HasToken(toks, p) /\ is_and(TokenAt(toks, p))
    THEN LET right == parse_unary(toks, p + 1)
         IN  IF ~right.res.ok THEN right
             ELSE parse_and_rest(toks, right.pos,
                                 new_complex(left, And, right.res.val))
    ELSE [res |-> Ok(left), pos |-> p]

parse_and(toks, p) ==
    LET first == parse_unary(toks, p)
    IN  IF ~first.res.ok THEN first
        ELSE parse_and_rest(toks, first.pos, first.res.val)

\* ( "OR" and_expr )* with the subtree accumulated so far as left operand.
parse_or_rest(toks, p, left) ==
    IF HasToken(toks, p) /\ is_or(TokenAt(toks, p))
    THEN LET right == parse_and(toks, p + 1)
         IN  IF ~right.res.ok THEN right
             ELSE parse_or_rest(toks, right.pos,
                                new_complex(left, Or, right.res.val))
    ELSE [res |-> Ok(left), pos |-> p]

parse_or(toks, p) ==
    LET first == parse_and(toks, p)
    IN  IF ~first.res.ok THEN first
        ELSE parse_or_rest(toks, first.pos, first.res.val)

\* recursive_parser::parse_condition
parse_condition(toks, p) == parse_or(toks, p)

\* The fewest tokens of a WHERE clause: the keyword and one simple condition.
MinWhereTokens == 4

\* Where::new_from_tokens: the clause's condition, or the error, and the
\* cursor its parser leaves (the cursor starts after the keyword).
Where_new_from_tokens(toks) ==
    IF Len(toks) < MinWhereTokens
    THEN [res |-> Err(InvalidSyntax), pos |-> 0]
    ELSE parse_condition(toks, 1)

\* Greatest number of items (simple conditions, keywords, group markers)
\* after the WHERE keyword in the generated clauses.
MaxItems == 5

\* The simple conditions of the generated clauses, as token triples.
SimpleA == <<S_age, T_gt, S_18>>
SimpleB == <<S_age, T_gt, S_40>>
SimpleC == <<S_city, T_eq, S_Gaiman>>
SimpleItems == {SimpleA, SimpleB, SimpleC}

\* The items a clause is made of.
Items ==
    SimpleItems \cup {<<T_AND>>, <<T_OR>>, <<T_NOT>>, <<T_LPAREN>>, <<T_RPAREN>>}

\* Every token sequence made of at most n items.
RECURSIVE ItemSeqs(_)
ItemSeqs(n) ==
    IF n = 0 THEN {<<>>}
    ELSE LET shorter == ItemSeqs(n - 1)
         IN  shorter \cup {s \o i : s \in shorter, i \in Items}

\* The clause WHERE followed by the items.
Clause(items) == <<T_WHERE>> \o items

\* The clauses ( a OR b ) AND c and NOT ( a AND ( b OR c ) ) over the simple
\* items.
GroupedClauses ==
    { Clause(<<T_LPAREN>> \o a \o <<T_OR>> \o b \o <<T_RPAREN, T_AND>> \o c) :
        a \in SimpleItems, b \in SimpleItems, c \in SimpleItems }
    \cup
    { Clause(<<T_NOT, T_LPAREN>> \o a \o <<T_AND, T_LPAREN>> \o b \o <<T_OR>>
             \o c \o <<T_RPAREN, T_RPAREN>>) :
        a \in SimpleItems, b \in SimpleItems, c \in SimpleItems }

\* A simple condition with an operator token that is none of =, > and <.
SimpleBad == <<S_age, T_ge, S_18>>

\* Clauses with an unknown operator token, and clauses that end inside a
\* simple condition.
BrokenClauses ==
    { Clause(SimpleBad), Clause(<<T_NOT>> \o SimpleBad),
      Clause(<<T_LPAREN>> \o SimpleBad \o <<T_RPAREN>>) }
    \cup
    { Clause(a \o <<op>> \o SimpleBad) :
        a \in SimpleItems, op \in {T_AND, T_OR} }
    \cup
    { Clause(a \o <<op>> \o SubSeq(b, 1, n)) :
        a \in SimpleItems, b \in SimpleItems, op \in {T_AND, T_OR}, n \in 1..2 }
    \cup
    { Clause(<<T_NOT>> \o SubSeq(b, 1, n)) : b \in SimpleItems, n \in 1..2 }

WhereTokens ==
    {Clause(s) : s \in ItemSeqs(MaxItems)} \cup GroupedClauses \cup BrokenClauses

InitWhere ==
    /\ tokens \in WhereTokens
    /\ pos = 0
    /\ cond = Pending
    /\ register \in Registers
    /\ result = Pending
    /\ NoStatement

\* Where::new_from_tokens(tokens)
WhereNewFromTokens ==
    /\ cond = Pending
    /\ LET r == Where_new_from_tokens(tokens)
       IN  cond' = r.res /\ pos' = r.pos
    /\ UNCHANGED <<tokens, register, result, string, index, table, statement, out>>

\* Where::execute(&register) is Execute: self.condition.execute(&register.0).
NextWhere == WhereNewFromTokens \/ Execute

SpecWhere == InitWhere /\ [][NextWhere]_vars

----------------------------------------------------------------------------
(* The tokenizer: tokens::tokens_from_query.                               *)

\* Greatest length of the generated query texts.
MaxQueryLen == 4

\* A character of two bytes in UTF-8 (an accented letter, alphabetic).
EAcute == "(e-acute)"

\* The letters of ASCII.
Letters == {Ascii[i] : i \in (34..59) \cup (66..91)}

\* char::is_alphabetic, char::is_numeric, char::is_alphanumeric and
\* char::is_whitespace on the characters of the model.
is_alphabetic(char) == char \in Letters \cup {EAcute}
is_numeric(char) == char \in Digits
is_alphanumeric(char) == is_alphabetic(char) \/ is_numeric(char)
is_whitespace(char) == char \in {" ", "\t", "\n"}

\* str::len: the length in bytes.
ByteLen(s) == Len(s) + Cardinality({i \in 1..Len(s) : s[i] = EAcute})

\* string.chars().nth(index).unwrap_or('0'): the character at a character
\* index from 0, or '0' past the last character.
CharAt(s, i) == IF i < Len(s) THEN s[i + 1] ELSE "0"

\* string.replace(";", "")
replace(s) == SelectSeq(s, LAMBDA c : c # ";")

\* process_alphabetic without the underscore, which still dispatches to it.
RECURSIVE process_alphabetic_without_underscore(_, _, _)
process_alphabetic_without_underscore(s, i, current) ==
    IF i < ByteLen(s) /\ is_alphabetic(CharAt(s, i))
    THEN process_alphabetic_without_underscore(s, i + 1, Append(current, CharAt(s, i)))
    ELSE [index |-> i, token |-> current]

\* tokens::process_alphabetic: the index it returns and the token it pushes.
RECURSIVE process_alphabetic(_, _, _)
process_alphabetic(s, i, current) ==
    IF i < ByteLen(s) /\ (is_alphabetic(CharAt(s, i)) \/ CharAt(s, i) = "_")
    THEN process_alphabetic(s, i + 1, Append(current, CharAt(s, i)))
    ELSE [index |-> i, token |-> current]

\* tokens::process_numeric
RECURSIVE process_numeric(_, _, _)
process_numeric(s, i, current) ==
    IF i < ByteLen(s) /\ is_numeric(CharAt(s, i))
    THEN process_numeric(s, i + 1, Append(current, CharAt(s, i)))
    ELSE [index |-> i, token |-> current]

\* The loop of process_quotes and process_paren: up to the closing character
\* or to the end of the text.
RECURSIVE scan_to(_, _, _, _)
scan_to(s, i, closing, current) ==
    IF i < ByteLen(s) /\ CharAt(s, i) # closing
    THEN scan_to(s, i + 1, closing, Append(current, CharAt(s, i)))
    ELSE [index |-> i, token |-> current]

\* tokens::process_quotes: skips the opening quote, scans, skips the closing
\* quote.
process_quotes(s, i, current) ==
    LET r == scan_to(s, i + 1, "'", current)
    IN  [index |-> r.index + 1, token |-> r.token]

\* process_paren pushing the opening parenthesis as a token of its own.
process_paren_pushes_marker(s, i, current) ==
    [index |-> i + 1, token |-> Append(current, "(")]

\* tokens::process_paren
process_paren(s, i, current) ==
    LET r == scan_to(s, i + 1, ")", current)
    IN  [index |-> r.index + 1, token |-> r.token]

process_other_one_char(s, i, current) ==
    [index |-> i + 1, token |-> Append(current, CharAt(s, i))]

\* tokens::process_other
RECURSIVE process_other(_, _, _)
process_other(s, i, current) ==
    IF i < ByteLen(s)
       /\ ~(is_alphanumeric(CharAt(s, i)) \/ is_whitespace(CharAt(s, i)))
    THEN process_other(s, i + 1, Append(current, CharAt(s, i)))
    ELSE [index |-> i, token |-> current]

\* The characters of the generated query texts: a letter, the underscore, a
\* digit, the quote, the parentheses, the separators, an operator character
\* and a two-byte letter.
QueryChars == {"a", "_", "1", "'", "(", ")", " ", ",", "=", EAcute}

\* Every text of at most n of these characters.
RECURSIVE TextsUpTo(_)
TextsUpTo(n) ==
    IF n = 0 THEN {<<>>}
    ELSE LET shorter == TextsUpTo(n - 1)
         IN  shorter \cup {Append(s, c) : s \in shorter, c \in QueryChars}

\* SELECT * FROM table WHERE column = 'value';
Q_Select ==
    <<"S", "E", "L", "E", "C", "T", " ", "*", " ", "F", "R", "O", "M", " ",
       "t", "a", "b", "l", "e", " ", "W", "H", "E", "R", "E", " ", "c",
       "o", "l", "u", "m", "n", " ", "=", " ", "'", "v", "a", "l", "u",
       "e", "'", ";" >>

\* abc123
Q_abc123 ==
    <<"a", "b", "c", "1", "2", "3" >>

\* a >= 1
Q_ge ==
    <<"a", " ", ">", "=", " ", "1" >>

\* a <> 1
Q_ne ==
    <<"a", " ", "<", ">", " ", "1" >>

\* INSERT INTO t (a, b) VALUES (A, 1);
Q_Insert ==
    <<"I", "N", "S", "E", "R", "T", " ", "I", "N", "T", "O", " ", "t", " ",
       "(", "a", ",", " ", "b", ")", " ", "V", "A", "L", "U", "E", "S",
       " ", "(", "A", ",", " ", "1", ")", ";" >>

\* DELETE FROM t WHERE a='b c';
Q_Delete ==
    <<"D", "E", "L", "E", "T", "E", " ", "F", "R", "O", "M", " ", "t", " ",
       "W", "H", "E", "R", "E", " ", "a", "=", "'", "b", " ", "c", "'",
       ";" >>

ExampleQueries == {Q_Select, Q_abc123, Q_ge, Q_ne, Q_Insert, Q_Delete}

Queries == TextsUpTo(MaxQueryLen) \cup ExampleQueries

\* No condition is parsed or evaluated.
NoCondition ==
    /\ pos = 0
    /\ cond = Pending
    /\ register = <<>>
    /\ result = Pending

\* tokens_from_query(string): index = 0, tokens = Vec::new().
InitTokens ==
    /\ string \in Queries
    /\ index = 0
    /\ tokens = <<>>
    /\ out = Pending
    /\ table = NoTable
    /\ statement = NoFields
    /\ NoCondition

\* The local string of tokens_from_query, and its length.
Text == replace(string)
length == ByteLen(Text)

\* The loop is at a character of the text.
Scanning == out = Pending /\ index < length

\* The pass of the loop that calls the helper: the helper pushes its token
\* and returns the next index.
Push(r) ==
    /\ index' = r.index
    /\ tokens' = Append(tokens, r.token)
    /\ UNCHANGED <<pos, cond, register, result, string, table, statement, out>>

ProcessAlphabetic ==
    /\ Scanning
    /\ is_alphabetic(CharAt(Text, index)) \/ CharAt(Text, index) = "_"
    /\ Push(process_alphabetic(Text, index, <<>>))

ProcessNumeric ==
    /\ Scanning
    /\ is_numeric(CharAt(Text, index))
    /\ Push(process_numeric(Text, index, <<>>))

ProcessQuotes ==
    /\ Scanning
    /\ CharAt(Text, index) = "'"
    /\ Push(process_quotes(Text, index, <<>>))

ProcessParen ==
    /\ Scanning
    /\ CharAt(Text, index) = "("
    /\ Push(process_paren(Text, index, <<>>))

\* Whitespace or a comma: index += 1.
SkipSeparator ==
    /\ Scanning
    /\ is_whitespace(CharAt(Text, index)) \/ CharAt(Text, index) = ","
    /\ index' = index + 1
    /\ UNCHANGED <<tokens, pos, cond, register, result, string, table, statement, out>>

\* The character of the last branch of the loop.
IsOther(char) ==
    /\ ~(is_alphabetic(char) \/ char = "_")
    /\ ~is_numeric(char)
    /\ char # "'"
    /\ char # "("
    /\ ~(is_whitespace(char) \/ char = ",")

ProcessOther ==
    /\ Scanning
    /\ IsOther(CharAt(Text, index))
    /\ Push(process_other(Text, index, <<>>))

\* After the loop: tokens.retain(|s| !s.is_empty()), and tokens is returned.
Retain ==
    /\ out = Pending
    /\ index >= length
    /\ tokens' = SelectSeq(tokens, LAMBDA s : s # <<>>)
    /\ out' = Ok(tokens')
    /\ UNCHANGED <<pos, cond, register, result, string, index, table, statement>>

NextTokens ==
    \/ ProcessAlphabetic
    \/ ProcessNumeric
    \/ ProcessQuotes
    \/ ProcessParen
    \/ SkipSeparator
    \/ ProcessOther
    \/ Retain

SpecTokens == InitTokens /\ [][NextTokens]_vars

\* tokens_from_query runs to its end: no pass of the loop is postponed
\* forever.
FairSpecTokens == SpecTokens /\ WF_vars(NextTokens)

----------------------------------------------------------------------------
(* The DELETE statement: Delete::apply_to_table.                           *)

\* Greatest number of lines after the header in the generated table files.
MaxRows == 3

\* line.split(','): the parts between the commas, from character i on, with
\* the part being read and the parts already closed.
RECURSIVE split_from(_, _, _, _)
split_from(line, i, current, parts) ==
    IF i > Len(line) THEN Append(parts, current)
    ELSE IF line[i] = ","
    THEN split_from(line, i + 1, <<>>, Append(parts, current))
    ELSE split_from(line, i + 1, Append(current, line[i]), parts)

split(line) == split_from(line, 1, <<>>, <<>>)

\* Register(HashMap::new())
EmptyRegister == [col \in {} |-> <<>>]

\* Table { columns, registers }
Table(columns, registers) == [columns |-> columns, registers |-> registers]

\* The where_clause of a statement that has none.
NoWhere == Err("None")

\* atributes[idx] past the last attribute: the call does not return.
Panic == Err("panic: index out of bounds")

\* The HashMap after inserting atributes[idx] under columns[idx] for every
\* idx in order: a later column of the same name overwrites.
InsertAll(columns, atributes) ==
    [col \in {columns[idx] : idx \in 1..Len(columns)} |->
        LET last == CHOOSE idx \in 1..Len(columns) :
                        /\ columns[idx] = col
                        /\ \A later \in (idx + 1)..Len(columns) : columns[later] # col
        IN  atributes[last]]

Delete_execute_keeps_matching(where_clause, line, columns) ==
    LET atributes == split(line)
        op_result == execute(where_clause.val, InsertAll(columns, atributes))
    IN  IF Len(atributes) < Len(columns) THEN Panic
        ELSE IF ~where_clause.ok THEN Ok(EmptyRegister)
        ELSE IF ~op_result.ok THEN op_result
        ELSE IF op_result.val THEN Ok(InsertAll(columns, atributes))
        ELSE Ok(EmptyRegister)

\* Delete::execute: the register of the line when the condition is false, an
\* empty register when it is true, or the condition's error.
Delete_execute(where_clause, line, columns) ==
    LET atributes == split(line)
        op_result == execute(where_clause.val, InsertAll(columns, atributes))
    IN  IF Len(atributes) < Len(columns) THEN Panic
        ELSE IF ~where_clause.ok THEN Ok(EmptyRegister)
        ELSE IF ~op_result.ok THEN op_result
        ELSE IF ~op_result.val THEN Ok(InsertAll(columns, atributes))
        ELSE Ok(EmptyRegister)

\* The loop of Delete::apply_to_table over the lines after the header, from
\* line number idx, with the table built so far.
RECURSIVE Delete_apply_lines(_, _, _, _)
Delete_apply_lines(where_clause, lines, idx, built) ==
    IF idx > Len(lines) THEN Ok(built)
    ELSE LET r == Delete_execute(where_clause, lines[idx], built.columns)
         IN  IF ~r.ok THEN r
             ELSE Delete_apply_lines(where_clause, lines, idx + 1,
                      IF DOMAIN r.val # {}
                      THEN Table(built.columns, Append(built.registers, r.val))
                      ELSE built)

\* Delete::apply_to_table
Delete_apply_to_table(where_clause, lines) ==
    IF lines = <<>> THEN Ok(Table(<<>>, <<>>))
    ELSE IF ~where_clause.ok THEN Ok(Table(split(lines[1]), <<>>))
    ELSE Delete_apply_lines(where_clause, lines, 2, Table(split(lines[1]), <<>>))

\* The header lines of the generated table files: a and a,b.
Headers == { <<"a">>, <<"a", ",", "b">> }

\* The other lines: 1,x and 5,y and x,1, the one-value line 3, the
\* three-value line 2,z,9 and the empty line.
RowLines ==
    { <<"1", ",", "x">>, <<"5", ",", "y">>, <<"x", ",", "1">>, <<"3">>,
      <<"2", ",", "z", ",", "9">>, <<>> }

\* Every sequence of at most n of these lines.
RECURSIVE RowSeqs(_)
RowSeqs(n) ==
    IF n = 0 THEN {<<>>}
    ELSE LET shorter == RowSeqs(n - 1)
         IN  shorter \cup {Append(s, l) : s \in shorter, l \in RowLines}

\* The table files: empty, or a header and at most MaxRows lines.
TableFiles == {<<>>} \cup {<<h>> \o rows : h \in Headers, rows \in RowSeqs(MaxRows)}

\* The conditions of the WHERE clauses of the statements: a = 1, a > 3,
\* b = x, NOT a = 1, and c = 1 on a column no table has.
StatementConds ==
    { Simple(<<"a">>, Equal, <<"1">>), Simple(<<"a">>, Greater, <<"3">>),
      Simple(<<"b">>, Equal, <<"x">>),
      Complex(None, Not, Simple(<<"a">>, Equal, <<"1">>)),
      Simple(<<"c">>, Equal, <<"1">>) }

\* Delete { table_name, where_clause } and the table file it is applied to.
InitDelete ==
    /\ cond \in {NoWhere} \cup {Ok(c) : c \in StatementConds}
    /\ table \in TableFiles
    /\ statement = NoFields
    /\ out = Pending
    /\ tokens = <<>>
    /\ pos = 0
    /\ register = <<>>
    /\ result = Pending
    /\ string = <<>>
    /\ index = 0

\* Delete::apply_to_table(table)
DeleteApplyToTable ==
    /\ out = Pending
    /\ out' = Delete_apply_to_table(cond, table)
    /\ UNCHANGED <<tokens, pos, cond, register, result, string, index, table, statement>>

NextDelete == DeleteApplyToTable

SpecDelete == InitDelete /\ [][NextDelete]_vars

----------------------------------------------------------------------------
(* The UPDATE statement: Update::apply_to_table.                           *)

\* HashMap::insert
Insert(reg, key, value) ==
    [k \in DOMAIN reg \cup {key} |-> IF k = key THEN value ELSE reg[k]]

\* for (col, val) in &self.set_clause.0 { register.0.insert(col, val) }, from
\* the i-th pair on.
RECURSIVE apply_set(_, _, _)
apply_set(reg, set_clause, i) ==
    IF i > Len(set_clause) THEN reg
    ELSE apply_set(Insert(reg, set_clause[i][1], set_clause[i][2]), set_clause, i + 1)

Update_execute_ignores_where(where_clause, set_clause, line, columns) ==
    LET atributes == split(line)
        op_result == execute(where_clause.val, InsertAll(columns, atributes))
    IN  IF Len(atributes) < Len(columns) THEN Panic
        ELSE IF where_clause.ok /\ ~op_result.ok THEN op_result
        ELSE Ok(apply_set(InsertAll(columns, atributes), set_clause, 1))

\* Update::execute: the register of the line, with the SET pairs inserted
\* when the condition is true or absent, or the condition's error.
Update_execute(where_clause, set_clause, line, columns) ==
    LET atributes == split(line)
        op_result == execute(where_clause.val, InsertAll(columns, atributes))
    IN  IF Len(atributes) < Len(columns) THEN Panic
        ELSE IF where_clause.ok
        THEN IF ~op_result.ok THEN op_result
             ELSE IF op_result.val
             THEN Ok(apply_set(InsertAll(columns, atributes), set_clause, 1))
             ELSE Ok(InsertAll(columns, atributes))
        ELSE Ok(apply_set(InsertAll(columns, atributes), set_clause, 1))

\* The loop of Update::apply_to_table over the lines after the header, from
\* line number idx, with the table built so far.
RECURSIVE Update_apply_lines(_, _, _, _, _)
Update_apply_lines(where_clause, set_clause, lines, idx, built) ==
    IF idx > Len(lines) THEN Ok(built)
    ELSE LET r == Update_execute(where_clause, set_clause, lines[idx], built.columns)
         IN  IF ~r.ok THEN r
             ELSE Update_apply_lines(where_clause, set_clause, lines, idx + 1,
                      IF DOMAIN r.val # {}
                      THEN Table(built.columns, Append(built.registers, r.val))
                      ELSE built)

\* Update::apply_to_table
Update_apply_to_table(where_clause, set_clause, lines) ==
    IF lines = <<>> THEN Ok(Table(<<>>, <<>>))
    ELSE Update_apply_lines(where_clause, set_clause, lines, 2,
                            Table(split(lines[1]), <<>>))

\* The SET clauses of the statements: a = 7; b = w; a = 7, b = w; a = 7,
\* a = 8; and c = 9 on a column no table has.
SetClauses ==
    { << <<<<"a">>, <<"7">>>> >>,
      << <<<<"b">>, <<"w">>>> >>,
      << <<<<"a">>, <<"7">>>>, <<<<"b">>, <<"w">>>> >>,
      << <<<<"a">>, <<"7">>>>, <<<<"a">>, <<"8">>>> >>,
      << <<<<"c">>, <<"9">>>> >> }

\* Update { table_name, set_clause, where_clause } and the table file it is
\* applied to.
InitUpdate ==
    /\ cond \in {NoWhere} \cup {Ok(c) : c \in StatementConds}
    /\ statement \in {[set_clause |-> sc] : sc \in SetClauses}
    /\ table \in TableFiles
    /\ out = Pending
    /\ tokens = <<>>
    /\ pos = 0
    /\ register = <<>>
    /\ result = Pending
    /\ string = <<>>
    /\ index = 0

\* Update::apply_to_table(table)
UpdateApplyToTable ==
    /\ out = Pending
    /\ out' = Update_apply_to_table(cond, statement.set_clause, table)
    /\ UNCHANGED <<tokens, pos, cond, register, result, string, index, table, statement>>

NextUpdate == UpdateApplyToTable

SpecUpdate == InitUpdate /\ [][NextUpdate]_vars

----------------------------------------------------------------------------
(* The INSERT statement: Insert::apply_to_table and reorder_values.        *)

\* Greatest number of INTO columns and of VALUES in the generated statements.
MaxCols == 3

\* str::trim: without the whitespace at its two ends.
RECURSIVE trim(_)
trim(s) ==
    IF s = <<>> THEN s
    ELSE IF is_whitespace(s[1]) THEN trim(Tail(s))
    ELSE IF is_whitespace(s[Len(s)]) THEN trim(SubSeq(s, 1, Len(s) - 1))
    ELSE s

\* self.values.join(",")
RECURSIVE join(_)
join(values) ==
    IF values = <<>> THEN <<>>
    ELSE IF Len(values) = 1 THEN values[1]
    ELSE values[1] \o <<",">> \o join(Tail(values))

\* self.into_clause.columns.iter().position(|x| x == col), from 1.
position(columns, col) ==
    CHOOSE i \in 1..Len(columns) :
        columns[i] = col /\ \A j \in 1..(i - 1) : columns[j] # col

\* Insert { values, into_clause: Into { table_name, columns } }
InsertOf(values, columns) ==
    [values |-> values, into_clause |-> [table_name |-> <<"t">>, columns |-> columns]]

\* The loop of reorder_values from the k-th table column, with the values
\* reordered so far.
RECURSIVE reorder_from(_, _, _, _)
reorder_from(self, columns, k, reordered_values) ==
    IF k > Len(columns) THEN Ok(reordered_values)
    ELSE IF columns[k] \in {self.into_clause.columns[i] :
                               i \in 1..Len(self.into_clause.columns)}
    THEN LET idx == position(self.into_clause.columns, columns[k])
         IN  IF idx > Len(self.values) THEN Panic
             ELSE reorder_from(self, columns, k + 1,
                               Append(reordered_values, self.values[idx]))
    ELSE reorder_from(self, columns, k + 1, Append(reordered_values, <<>>))

reorder_values_keeps_order(self, columns) ==
    IF Len(self.values) < Len(columns)
    THEN Ok(InsertOf(self.values \o [k \in 1..(Len(columns) - Len(self.values)) |-> <<>>],
                     columns))
    ELSE Ok(InsertOf(SubSeq(self.values, 1, Len(columns)), columns))

\* Insert::reorder_values: the statement it leaves, or the abort of
\* self.values[index].
reorder_values(self, columns) ==
    LET r == reorder_from(self, columns, 1, <<>>)
    IN  IF ~r.ok THEN r ELSE Ok(InsertOf(r.val, columns))

\* The columns Insert::apply_to_table reads from the first line of the file.
first_line_columns(lines) == split(trim(IF lines = <<>> THEN <<>> ELSE lines[1]))

\* Every sequence of 1 to n elements of the set.
RECURSIVE ListsUpTo(_, _)
ListsUpTo(set, n) ==
    IF n = 1 THEN {<<e>> : e \in set}
    ELSE LET shorter == ListsUpTo(set, n - 1)
         IN  shorter \cup {Append(l, e) : l \in shorter, e \in set}

\* The statements: INTO columns among a, b and c, VALUES among 1 and x.
Inserts ==
    { InsertOf(values, columns) :
        values \in ListsUpTo({<<"1">>, <<"x">>}, MaxCols),
        columns \in ListsUpTo({<<"a">>, <<"b">>, <<"c">>}, MaxCols) }

\* The table files: empty, or the header a, or a,b or b,a or a,b,c.
InsertFiles ==
    { <<>>, << <<"a">> >>, << <<"a", ",", "b">> >>, << <<"b", ",", "a">> >>,
      << <<"a", ",", "b", ",", "c">> >> }

InitInsert ==
    /\ statement \in Inserts
    /\ table \in InsertFiles
    /\ out = Pending
    /\ tokens = <<>>
    /\ string = <<>>
    /\ index = 0
    /\ NoCondition

\* Insert::apply_to_table(file): the values are reordered, joined and written
\* as a new last line.
InsertApplyToTable ==
    /\ out = Pending
    /\ LET r == reorder_values(statement, first_line_columns(table))
       IN  IF r.ok
           THEN /\ statement' = r.val
                /\ table' = Append(table, join(r.val.values))
                /\ out' = Ok(<<>>)
           ELSE /\ out' = r
                /\ UNCHANGED <<statement, table>>
    /\ UNCHANGED <<tokens, pos, cond, register, result, string, index>>

NextInsert == InsertApplyToTable

SpecInsert == InitInsert /\ [][NextInsert]_vars

----------------------------------------------------------------------------
(* Comparing values at the limits of i32.                                  *)

\* The values and literals: i32::MAX and the integer above it, i32::MIN and
\* the integer below it, signed forms, a long digit string, a value with
\* leading zeros, a sign alone and a word.
N_max == <<"2", "1", "4", "7", "4", "8", "3", "6", "4", "7">>
N_over == <<"2", "1", "4", "7", "4", "8", "3", "6", "4", "8">>
N_min == <<"-", "2", "1", "4", "7", "4", "8", "3", "6", "4", "8">>
N_under == <<"-", "2", "1", "4", "7", "4", "8", "3", "6", "4", "9">>
N_plus5 == <<"+", "5">>
N_minus5 == <<"-", "5">>
N_5 == <<"5">>
N_huge == <<"9", "9", "9", "9", "9", "9", "9", "9", "9", "9", "9">>
N_plus_over == <<"+", "2", "1", "4", "7", "4", "8", "3", "6", "4", "8">>
N_zeros == <<"0", "0", "0", "2", "1", "4", "7", "4", "8", "3", "6", "4", "7">>
N_sign == <<"-">>

LimitValues ==
    {N_max, N_over, N_min, N_under, N_plus5, N_minus5, N_5, N_huge,
     N_plus_over, N_zeros, N_sign, S_abc}

\* age, an operator and a literal, against a row that holds age.
InitLimits ==
    /\ tokens \in {<<S_age, o, v>> : o \in {T_eq, T_gt, T_lt}, v \in LimitValues}
    /\ pos = 0
    /\ cond = Pending
    /\ register \in {[f \in {S_age} |-> x] : x \in LimitValues}
    /\ result = Pending
    /\ NoStatement

SpecLimits == InitLimits /\ [][NextSimple]_vars

----------------------------------------------------------------------------
(* The statement parsers: Select::new_from_tokens, OrderBy::new_from_tokens *)
(* and Delete::new_from_tokens.                                            *)

T_SELECT == <<"S", "E", "L", "E", "C", "T">>
T_DELETE == <<"D", "E", "L", "E", "T", "E">>
T_FROM == <<"F", "R", "O", "M">>
T_ORDER == <<"O", "R", "D", "E", "R">>
T_BY == <<"B", "Y">>
T_DESC == <<"D", "E", "S", "C">>
T_ASC == <<"A", "S", "C">>
T_table == <<"t">>

is_where(token) == token = T_WHERE
is_select(token) == token = T_SELECT
is_from(token) == token = T_FROM
is_order(token1) == token1 = T_ORDER
is_by(token1) == token1 = T_BY
is_delete(token) == token = T_DELETE

\* Select.orderby_clause without a value.
NoOrderBy == Err("None")

\* OrderBy::new_from_tokens
MinOrderByTokens == 3

RECURSIVE orderby_columns(_, _, _)
orderby_columns(toks, i, columns) ==
    IF HasToken(toks, i) /\ TokenAt(toks, i) # T_DESC /\ TokenAt(toks, i) # T_ASC
    THEN orderby_columns(toks, i + 1, Append(columns, TokenAt(toks, i)))
    ELSE [columns |-> columns, i |-> i]

OrderBy_new_from_tokens(toks) ==
    IF Len(toks) < MinOrderByTokens THEN Err(InvalidSyntax)
    ELSE IF ~is_order(TokenAt(toks, 0)) /\ ~is_by(TokenAt(toks, 1))
    THEN Err(InvalidSyntax)
    ELSE LET r == orderby_columns(toks, 2, <<>>)
         IN  Ok([columns |-> r.columns,
                 order |-> IF HasToken(toks, r.i) THEN TokenAt(toks, r.i)
                           ELSE <<>>])

\* select_sql::parse_columns: the loop reads tokens[*i] before it compares *i
\* with tokens.len().
RECURSIVE parse_columns_loop(_, _, _)
parse_columns_loop(toks, i, columns) ==
    IF ~HasToken(toks, i) THEN [res |-> Panic, i |-> i]
    ELSE IF ~is_from(TokenAt(toks, i))
    THEN parse_columns_loop(toks, i + 1, Append(columns, TokenAt(toks, i)))
    ELSE [res |-> Ok(columns), i |-> i]

parse_columns(toks, i) ==
    IF ~HasToken(toks, i) THEN [res |-> Panic, i |-> i]
    ELSE IF is_select(TokenAt(toks, i)) THEN parse_columns_loop(toks, i + 1, <<>>)
    ELSE [res |-> Err(InvalidSyntax), i |-> i]

\* select_sql::parse_table_name
parse_table_name(toks, i) ==
    IF HasToken(toks, i) /\ is_from(TokenAt(toks, i))
    THEN IF HasToken(toks, i + 1)
         THEN [res |-> Ok(TokenAt(toks, i + 1)), i |-> i + 2]
         ELSE [res |-> Panic, i |-> i + 1]
    ELSE [res |-> Err(InvalidSyntax), i |-> i]

\* The tokens from tokens[i] up to the first ORDER, or to the end.
RECURSIVE where_tokens_from(_, _, _)
where_tokens_from(toks, i, where_tokens) ==
    IF HasToken(toks, i) /\ ~is_order(TokenAt(toks, i))
    THEN where_tokens_from(toks, i + 1, Append(where_tokens, TokenAt(toks, i)))
    ELSE [where_tokens |-> where_tokens, i |-> i]

\* select_sql::parse_where_and_orderby
parse_where_and_orderby(toks, i) ==
    IF ~HasToken(toks, i) THEN [where_tokens |-> <<>>, orderby_tokens |-> <<>>]
    ELSE LET w == IF is_where(TokenAt(toks, i)) THEN where_tokens_from(toks, i, <<>>)
                  ELSE [where_tokens |-> <<>>, i |-> i]
             j == w.i
         IN  [where_tokens |-> w.where_tokens,
              orderby_tokens |->
                  IF HasToken(toks, j) /\ is_order(TokenAt(toks, j))
                  THEN IF HasToken(toks, j + 1) /\ is_by(TokenAt(toks, j + 1))
                       THEN SubSeq(toks, j + 1, Len(toks))
                       ELSE <<TokenAt(toks, j)>>
                  ELSE <<>>]

\* Select::new_from_tokens
MinSelectTokens == 4

Select_new_from_tokens(toks) ==
    IF Len(toks) < MinSelectTokens THEN Err(InvalidSyntax)
    ELSE LET columns == parse_columns(toks, 0)
             table_name == parse_table_name(toks, columns.i)
             rest == parse_where_and_orderby(toks, table_name.i)
             where_clause == IF rest.where_tokens # <<>>
                             THEN Where_new_from_tokens(rest.where_tokens).res
                             ELSE NoWhere
             orderby_clause == IF rest.orderby_tokens # <<>>
                               THEN OrderBy_new_from_tokens(rest.orderby_tokens)
                               ELSE NoOrderBy
         IN  IF ~columns.res.ok THEN columns.res
             ELSE IF ~table_name.res.ok THEN table_name.res
             ELSE IF columns.res.val = <<>> \/ table_name.res.val = <<>>
             THEN Err(InvalidSyntax)
             ELSE IF where_clause # NoWhere /\ ~where_clause.ok THEN where_clause
             ELSE IF orderby_clause # NoOrderBy /\ ~orderby_clause.ok
             THEN orderby_clause
             ELSE Ok([table_name |-> table_name.res.val,
                      columns |-> columns.res.val,
                      where_clause |-> where_clause,
                      orderby_clause |-> orderby_clause])

\* Delete::new_from_tokens
MinDeleteTokens == 3
WherePlace == 3

Delete_new_from_tokens(toks) ==
    IF Len(toks) < MinDeleteTokens THEN Err(InvalidSyntax)
    ELSE IF ~is_delete(TokenAt(toks, 0)) \/ ~is_from(TokenAt(toks, 1))
    THEN Err(InvalidSyntax)
    ELSE LET table_name == TokenAt(toks, 2)
             where_tokens == IF HasToken(toks, WherePlace)
                                /\ is_where(TokenAt(toks, WherePlace))
                             THEN SubSeq(toks, WherePlace + 1, Len(toks))
                             ELSE <<>>
             where_clause == IF where_tokens # <<>>
                             THEN Where_new_from_tokens(where_tokens).res
                             ELSE NoWhere
         IN  IF table_name = <<>> THEN Err(InvalidSyntax)
             ELSE IF where_clause # NoWhere /\ ~where_clause.ok THEN where_clause
             ELSE Ok([table_name |-> table_name, where_clause |-> where_clause])

\* Greatest length of the token sequences generated word by word.
MaxStmtLen == 4

\* SELECT age FROM t WHERE age > 18 ORDER BY age DESC
FullSelect ==
    <<T_SELECT, S_age, T_FROM, T_table, T_WHERE>> \o SimpleA
        \o <<T_ORDER, T_BY, S_age, T_DESC>>

\* DELETE FROM t WHERE age > 18 AND city = Gaiman
FullDelete ==
    <<T_DELETE, T_FROM, T_table, T_WHERE>> \o SimpleA \o <<T_AND>> \o SimpleC

\* The sequences that begin a sequence, the empty one and itself included.
Prefixes(s) == {SubSeq(s, 1, n) : n \in 0..Len(s)}

\* The token sequences of SELECT statements: every sequence of at most
\* MaxStmtLen words, the beginnings of a full statement, and statements with
\* one of the clauses only, or a clause that does not parse.
SelectWords == {T_SELECT, T_FROM, T_WHERE, T_ORDER, S_age, T_table}

SelectTokens ==
    ListsUpTo(SelectWords, MaxStmtLen) \cup Prefixes(FullSelect)
    \cup { <<T_SELECT, S_age, T_FROM, T_table>> \o rest :
             rest \in { <<T_ORDER, T_BY, S_age>>, <<T_ORDER, T_BY>>,
                        <<T_ORDER, S_age, S_age>>,
                        <<T_WHERE>> \o SimpleBad,
                        <<T_WHERE>> \o SimpleA \o <<T_ORDER, S_age, S_age>>,
                        <<S_age>> \o SimpleA } }
    \cup {<<T_SELECT, S_age, T_FROM, <<>>, T_ORDER>>, <<T_SELECT, T_FROM, T_table, S_age>>}

\* The token sequences given to OrderBy::new_from_tokens.
OrderByWords == {T_ORDER, T_BY, T_DESC, T_ASC, S_age, S_name}

OrderByTokens == ListsUpTo(OrderByWords, MaxStmtLen)

\* The token sequences of DELETE statements.
DeleteWords == {T_DELETE, T_FROM, T_WHERE, T_table, S_age}

DeleteTokens ==
    ListsUpTo(DeleteWords, MaxStmtLen) \cup Prefixes(FullDelete)
    \cup { <<T_DELETE, T_FROM, T_table>> \o rest :
             rest \in { SimpleA, <<T_AND>> \o SimpleA, <<T_WHERE>> \o SimpleBad,
                        <<S_age, T_WHERE>> \o SimpleA } }
    \cup {<<T_DELETE, T_FROM, <<>>, T_WHERE>>}

\* The state before a statement parser is called on the tokens.
NotParsed ==
    /\ NoCondition
    /\ NoStatement

InitSelect ==
    /\ tokens \in SelectTokens
    /\ NotParsed

\* Select::new_from_tokens(tokens)
SelectNewFromTokens ==
    /\ out = Pending
    /\ out' = Select_new_from_tokens(tokens)
    /\ UNCHANGED <<tokens, pos, cond, register, result, string, index, table, statement>>

SpecSelect == InitSelect /\ [][SelectNewFromTokens]_vars

InitOrderBy ==
    /\ tokens \in OrderByTokens
    /\ NotParsed

\* OrderBy::new_from_tokens(tokens)
OrderByNewFromTokens ==
    /\ out = Pending
    /\ out' = OrderBy_new_from_tokens(tokens)
    /\ UNCHANGED <<tokens, pos, cond, register, result, string, index, table, statement>>

SpecOrderBy == InitOrderBy /\ [][OrderByNewFromTokens]_vars

InitDeleteTokens ==
    /\ tokens \in DeleteTokens
    /\ NotParsed

\* Delete::new_from_tokens(tokens)
DeleteNewFromTokens ==
    /\ out = Pending
    /\ out' = Delete_new_from_tokens(tokens)
    /\ UNCHANGED <<tokens, pos, cond, register, result, string, index, table, statement>>

SpecDeleteTokens == InitDeleteTokens /\ [][DeleteNewFromTokens]_vars

----------------------------------------------------------------------------
(* Properties of Condition::execute on built trees (specification Spec).   *)

\* The condition under evaluation and the parts of its root node.
Root == cond.val
Executed == cond.ok /\ result # Pending
IsBinary(c) == c.type = "Complex" /\ c.operator \in {And, Or}
HasLeft(c) == c.left.type # "None"

\* C1: for every row and every pair of subtrees whose evaluations both
\* succeed, an And node with left present evaluates to the conjunction of the
\* two operands' values and an Or node to their disjunction.
C1_AndOrCombineOperands ==
    (Executed /\ IsBinary(Root) /\ HasLeft(Root)) =>
        LET l == execute(Root.left, register)
            r == execute(Root.right, register)
        IN  (l.ok /\ r.ok) =>
                result = Ok(IF Root.operator = And
                            THEN l.val /\ r.val
                            ELSE l.val \/ r.val)

\* An Or node over a false left operand and a nested, true right operand has
\* been evaluated to true.
C1_Witness ==
    /\ Executed /\ IsBinary(Root) /\ HasLeft(Root)
    /\ Root.operator = Or
    /\ Root.right.type = "Complex"
    /\ execute(Root.left, register) = Ok(FALSE)
    /\ execute(Root.right, register) = Ok(TRUE)
    /\ result = Ok(TRUE)

\* C2: a Not node with left absent evaluates to the negation of its right
\* subtree when that subtree evaluates, and fails with the subtree's error
\* when it fails.
C2_NotNegatesRight ==
    (Executed /\ Root.type = "Complex" /\ Root.operator = Not /\ ~HasLeft(Root)) =>
        LET r == execute(Root.right, register)
        IN  IF r.ok THEN result = Ok(~r.val) ELSE result = r

\* A Not node over a nested subtree that evaluates to true has been evaluated
\* to false.
C2_Witness ==
    /\ Executed /\ Root.type = "Complex" /\ Root.operator = Not /\ ~HasLeft(Root)
    /\ Root.right.type = "Complex"
    /\ execute(Root.right, register) = Ok(TRUE)
    /\ result = Ok(FALSE)

\* C7: an And or Or node whose left operand is absent fails with the
\* missing-data error, whatever the row and the right subtree are, also when
\* the right subtree itself fails with InvalidSyntax.
C7_MissingLeftIsError ==
    (Executed /\ IsBinary(Root) /\ ~HasLeft(Root)) => result = Err(Error)

\* An And node without a left operand, whose right subtree fails with
\* InvalidSyntax, has been evaluated.
C7_Witness ==
    /\ Executed /\ IsBinary(Root) /\ ~HasLeft(Root)
    /\ Root.operator = And
    /\ execute(Root.right, register) = Err(InvalidSyntax)
    /\ result = Err(Error)

\* C8: And and Or have no early exit: a node with left present succeeds only
\* when both operands succeed; it fails with the left operand's error when the
\* left fails and with the right operand's error when only the right fails,
\* also when the left value alone would decide the result.
C8_NoEarlyExit ==
    (Executed /\ IsBinary(Root) /\ HasLeft(Root)) =>
        LET l == execute(Root.left, register)
            r == execute(Root.right, register)
        IN  /\ result.ok <=> (l.ok /\ r.ok)
            /\ ~l.ok => result = l
            /\ (l.ok /\ ~r.ok) => result = r

\* An And node whose left operand is false and whose right operand fails has
\* been evaluated, and failed.
C8_Witness ==
    /\ Executed /\ IsBinary(Root) /\ HasLeft(Root)
    /\ Root.operator = And
    /\ execute(Root.left, register) = Ok(FALSE)
    /\ ~execute(Root.right, register).ok
    /\ ~result.ok

----------------------------------------------------------------------------
(* Properties of a parsed simple condition (specification SpecSimple).     *)

\* Three tokens were given and the operator token is one of =, > and <.
WellFormedTokens == Len(tokens) = 3 /\ tokens[2] \in {T_eq, T_gt, T_lt}

\* The row holds the field the tokens name.
FieldInRow == tokens[1] \in DOMAIN register

\* The row value and the literal of the tokens.
RowValue == register[tokens[1]]
Literal == tokens[3]

\* The lexicographic order of two strings by character code, by recursion on
\* their heads.
RECURSIVE LexLess(_, _)
LexLess(a, b) ==
    IF b = <<>> THEN FALSE
    ELSE IF a = <<>> THEN TRUE
    ELSE IF Head(a) = Head(b) THEN LexLess(Tail(a), Tail(b))
    ELSE CharCode(Head(a)) < CharCode(Head(b))

\* C3: when the field is in the row and exactly one of the row value and the
\* literal parses as an i32, evaluation fails with InvalidSyntax for each of
\* the three operators.
C3_MixedTypesFail ==
    (Executed /\ WellFormedTokens /\ FieldInRow
        /\ is_number(RowValue) # is_number(Literal)) =>
        result = Err(InvalidSyntax)

\* age > 18 has been evaluated against a row where age is abc.
C3_Witness ==
    /\ Executed /\ WellFormedTokens /\ FieldInRow
    /\ RowValue = S_abc /\ Literal = S_18 /\ Root.operator = Greater
    /\ result = Err(InvalidSyntax)

\* C4: when the field is absent from the row, evaluation fails with the
\* missing-data error, whatever the operator and the literal are.
C4_AbsentFieldIsError ==
    (Executed /\ WellFormedTokens /\ ~FieldInRow) => result = Err(Error)

\* city = abc has been evaluated against a row without city.
C4_Witness ==
    /\ Executed /\ WellFormedTokens /\ ~FieldInRow
    /\ Literal = S_abc /\ Root.operator = Equal
    /\ result = Err(Error)

\* C5, as claimed: parsing three well-formed tokens and evaluating the
\* condition against a row that holds the field never raises InvalidSyntax.
C5_NeverInvalidSyntax ==
    (WellFormedTokens /\ FieldInRow) =>
        /\ cond # Err(InvalidSyntax)
        /\ result # Err(InvalidSyntax)

\* C5, amended: parsing three well-formed tokens never raises InvalidSyntax,
\* and evaluating the condition against a row that holds the field raises it
\* exactly when one of the row value and the literal parses as an i32 and the
\* other does not.
C5_InvalidSyntaxOnlyWhenMixed ==
    (WellFormedTokens /\ FieldInRow) =>
        /\ cond # Err(InvalidSyntax)
        /\ result # Pending =>
              (result = Err(InvalidSyntax) <=>
                  is_number(RowValue) # is_number(Literal))

\* age < 18 has been parsed and evaluated to a boolean against a row where
\* age is a number.
C5_Witness ==
    /\ Executed /\ WellFormedTokens /\ FieldInRow
    /\ tokens[2] = T_lt /\ Literal = S_18 /\ is_number(RowValue)
    /\ result.ok

\* C6: when the row value x and the literal y are both numbers or both not,
\* the leaf evaluates by the lexicographic order of the strings with the row
\* value on the left: Lesser is x < y, Greater is x > y, Equal is equality;
\* 24 > 18 is true, 24 > 40 is false and 9 > 10 is true.
C6_StringOrdering ==
    (Executed /\ WellFormedTokens /\ FieldInRow
        /\ is_number(RowValue) = is_number(Literal)) =>
        LET x == RowValue
            y == Literal
            op == Root.operator
        IN  /\ op = Lesser => result = Ok(LexLess(x, y))
            /\ op = Greater => result = Ok(LexLess(y, x))
            /\ op = Equal => result = Ok(x = y)
            /\ (op = Greater /\ x = S_24 /\ y = S_18) => result = Ok(TRUE)
            /\ (op = Greater /\ x = S_24 /\ y = S_40) => result = Ok(FALSE)
            /\ (op = Greater /\ x = S_9 /\ y = S_10) => result = Ok(TRUE)

\* age > 10 has been evaluated to true against a row where age is 9.
C6_Witness ==
    /\ Executed /\ WellFormedTokens /\ FieldInRow
    /\ Root.operator = Greater /\ RowValue = S_9 /\ Literal = S_10
    /\ result = Ok(TRUE)

----------------------------------------------------------------------------
(* Properties of the parser (specification SpecWhere).                     *)

\* The condition each simple item of the generated clauses denotes.
LeafOf(item) ==
    CASE item = SimpleA -> Simple(S_age, Greater, S_18)
      [] item = SimpleB -> Simple(S_age, Greater, S_40)
      [] item = SimpleC -> Simple(S_city, Equal, S_Gaiman)

\* The clauses a OR b AND c and NOT a AND b over the simple items, each with
\* the tree that gives NOT the tightest and OR the loosest binding.
PrecedenceCases ==
    { <<Clause(a \o <<T_OR>> \o b \o <<T_AND>> \o c),
        Ok(Complex(LeafOf(a), Or, Complex(LeafOf(b), And, LeafOf(c))))>> :
        a \in SimpleItems, b \in SimpleItems, c \in SimpleItems }
    \cup
    { <<Clause(<<T_NOT>> \o a \o <<T_AND>> \o b),
        Ok(Complex(Complex(None, Not, LeafOf(a)), And, LeafOf(b)))>> :
        a \in SimpleItems, b \in SimpleItems }

\* C9: NOT binds tighter than AND and AND tighter than OR: for simple
\* conditions a, b, c, a OR b AND c parses to Or(a, And(b, c)) and
\* NOT a AND b parses to And(Not(a), b).
C9_Precedence ==
    cond # Pending =>
        \A case \in PrecedenceCases : tokens = case[1] => cond = case[2]

\* The clause a OR b AND c, of three different simple conditions, has been
\* parsed into an Or node over a and an And node.
C9_Witness ==
    /\ tokens = Clause(SimpleA \o <<T_OR>> \o SimpleB \o <<T_AND>> \o SimpleC)
    /\ cond.ok
    /\ cond.val.operator = Or
    /\ cond.val.left = LeafOf(SimpleA)
    /\ cond.val.right.operator = And

\* The clauses a AND b AND c and a OR b OR c over the simple items, each with
\* its left-leaning tree.
AssociativityCases ==
    { <<Clause(a \o <<op[1]>> \o b \o <<op[1]>> \o c),
        Ok(Complex(Complex(LeafOf(a), op[2], LeafOf(b)), op[2], LeafOf(c)))>> :
        a \in SimpleItems, b \in SimpleItems, c \in SimpleItems,
        op \in {<<T_AND, And>>, <<T_OR, Or>>} }

\* C10: repeated AND and repeated OR are left-associative: a AND b AND c
\* parses to And(And(a, b), c) and a OR b OR c to Or(Or(a, b), c).
C10_LeftAssociative ==
    cond # Pending =>
        \A case \in AssociativityCases : tokens = case[1] => cond = case[2]

\* The clause a AND b AND c, of three different simple conditions, has been
\* parsed into an And node whose left operand is an And node and whose right
\* operand is c.
C10_Witness ==
    /\ tokens = Clause(SimpleA \o <<T_AND>> \o SimpleB \o <<T_AND>> \o SimpleC)
    /\ cond.ok
    /\ cond.val.operator = And
    /\ cond.val.left.type = "Complex"
    /\ cond.val.left.operator = And
    /\ cond.val.right = LeafOf(SimpleC)

----------------------------------------------------------------------------
(* Properties of the cursor of new_simple_from_tokens (SpecCursor).        *)

\* The step in which new_simple_from_tokens is called.
ParseStep == cond = Pending /\ cond' # Pending

\* At least three tokens remain from the cursor.
ThreeRemain == Len(tokens) - pos >= 3

\* The token after the one at the cursor is one of =, > and <.
OperatorKnown == tokens[pos + 2] \in {T_eq, T_gt, T_lt}

\* The operator a known operator token stands for.
OperatorOf(token) ==
    CASE token = T_eq -> Equal
      [] token = T_gt -> Greater
      [] token = T_lt -> Lesser

\* C11: on success new_simple_from_tokens advances the cursor by exactly
\* three and returns the Simple condition of the tokens at the cursor, after
\* it and two after it; it fails with InvalidSyntax when fewer than three
\* tokens remain from the cursor or when the operator token is not =, > or <.
C11_ConsumesThreeTokens ==
    [][ParseStep =>
          IF ThreeRemain /\ OperatorKnown
          THEN /\ cond' = Ok(Simple(tokens[pos + 1], OperatorOf(tokens[pos + 2]),
                                    tokens[pos + 3]))
               /\ pos' = pos + 3
          ELSE cond' = Err(InvalidSyntax)]_vars

\* city < abc has been parsed from the cursor after WHERE, which is now after
\* the fourth token.
C11_Witness ==
    /\ tokens = <<T_WHERE, S_city, T_lt, S_abc>>
    /\ cond = Ok(Simple(S_city, Lesser, S_abc))
    /\ pos = 4

\* C12, as claimed: after a failed parse the cursor is the index of the token
\* that was missing or rejected: the index of the operator token when the
\* operator is not =, > or <, the index after the last token when the
\* tokens ran out.
C12_CursorAtFailure ==
    [][(ParseStep /\ ~cond'.ok) =>
          IF ThreeRemain
          THEN pos' = pos + 1
          ELSE pos' = Len(tokens)]_vars

\* C12, amended: after a failed parse the cursor is the index after the last
\* token when the tokens ran out, and three after its start, after the
\* value token, when the operator is not =, > or <.
C12_CursorAfterFailure ==
    [][(ParseStep /\ ~cond'.ok) =>
          IF ThreeRemain
          THEN pos' = pos + 3
          ELSE pos' = Len(tokens)]_vars

\* Parsing age >= 18 from the cursor after WHERE has failed and left the
\* cursor after the value token.
C12_Witness ==
    /\ tokens = <<T_WHERE, S_age, T_ge, S_18>>
    /\ cond = Err(InvalidSyntax)
    /\ pos = 4

----------------------------------------------------------------------------
(* Grouping and structural violations (SpecWhere).                         *)

\* The clauses ( a OR b ) AND c and NOT ( a AND ( b OR c ) ), each with the
\* tree in which the group is one operand.
GroupingCases ==
    { <<Clause(<<T_LPAREN>> \o a \o <<T_OR>> \o b \o <<T_RPAREN, T_AND>> \o c),
        Ok(Complex(Complex(LeafOf(a), Or, LeafOf(b)), And, LeafOf(c)))>> :
        a \in SimpleItems, b \in SimpleItems, c \in SimpleItems }
    \cup
    { <<Clause(<<T_NOT, T_LPAREN>> \o a \o <<T_AND, T_LPAREN>> \o b \o <<T_OR>>
               \o c \o <<T_RPAREN, T_RPAREN>>),
        Ok(Complex(None, Not,
                   Complex(LeafOf(a), And, Complex(LeafOf(b), Or, LeafOf(c)))))>> :
        a \in SimpleItems, b \in SimpleItems, c \in SimpleItems }

\* The index of the token that closes the group opened before index i, of
\* which depth groups are open at i; 0 when no token closes it.
RECURSIVE CloseOf(_, _, _)
CloseOf(toks, i, depth) ==
    IF i > Len(toks) THEN 0
    ELSE IF toks[i] = T_LPAREN THEN CloseOf(toks, i + 1, depth + 1)
    ELSE IF toks[i] = T_RPAREN
    THEN IF depth = 1 THEN i ELSE CloseOf(toks, i + 1, depth - 1)
    ELSE CloseOf(toks, i + 1, depth)

\* The condition starts with a group, or with NOT and a group, that no token
\* closes.
StartsWithUnclosedGroup ==
    \/ /\ Len(tokens) >= 2
       /\ tokens[2] = T_LPAREN
       /\ CloseOf(tokens, 3, 1) = 0
    \/ /\ Len(tokens) >= 3
       /\ tokens[2] = T_NOT
       /\ tokens[3] = T_LPAREN
       /\ CloseOf(tokens, 4, 1) = 0

TrailingConnective ==
    Len(tokens) >= 2 /\ tokens[Len(tokens)] \in {T_AND, T_OR, T_NOT}

\* The number of groups left open after the tokens from index i, with depth
\* groups open at i; -1 when a closing marker has no group to close.
RECURSIVE OpenGroups(_, _, _)
OpenGroups(toks, i, depth) ==
    IF i > Len(toks) THEN depth
    ELSE IF toks[i] = T_LPAREN THEN OpenGroups(toks, i + 1, depth + 1)
    ELSE IF toks[i] = T_RPAREN
    THEN IF depth = 0 THEN -1 ELSE OpenGroups(toks, i + 1, depth - 1)
    ELSE OpenGroups(toks, i + 1, depth)

\* An opening marker without its closing marker, or a closing marker without
\* its opening marker.
UnmatchedGrouping == OpenGroups(tokens, 2, 0) # 0

----------------------------------------------------------------------------
(* Properties of the tokenizer (specification SpecTokens).                 *)

\* The elements of a sequence.
Range(s) == {s[i] : i \in 1..Len(s)}

\* tokens_from_query has returned.
Returned == out.ok

\* The text from character i to character j is a maximal run of characters
\* of the class.
IsMaximalRun(s, i, j, class) ==
    /\ i <= j
    /\ \A k \in i..j : s[k] \in class
    /\ i > 1 => s[i - 1] \notin class
    /\ j < Len(s) => s[j + 1] \notin class

\* The character stops the other rule.
StopsOther(char) == is_alphanumeric(char) \/ is_whitespace(char)

\* C15, as claimed: a token produced by the other rule has length 1.
C15_OtherTokenHasLengthOne ==
    [][ProcessOther => Len(tokens'[Len(tokens')]) = 1]_vars

\* C15, amended: the other rule emits, from its first character, the maximal
\* run of characters that are neither alphanumeric nor whitespace, which is
\* at least one character long, and continues after the run.
C15_OtherTokenIsMaximalRun ==
    [][ProcessOther =>
          LET n == index' - index
          IN  /\ n >= 1
              /\ index + n <= Len(Text)
              /\ tokens' = Append(tokens, SubSeq(Text, index + 1, index + n))
              /\ \A j \in (index + 1)..(index + n) : ~StopsOther(Text[j])
              /\ index + n < Len(Text) => StopsOther(Text[index + n + 1])]_vars

\* a >= 1 has been tokenized: >= is one token.
C15_Witness ==
    /\ string = Q_ge
    /\ out = Ok(<< <<"a">>, <<">", "=">>, <<"1">> >>)

\* Every character of the text is one byte long.
AsciiText == EAcute \notin Range(Text)

\* The text has no quoted and no parenthesized span.
PlainText == "'" \notin Range(Text) /\ "(" \notin Range(Text)

\* C16, as claimed: in a text of one-byte characters, outside quoted and
\* parenthesized spans, every maximal run of alphabetic or underscore
\* characters and every maximal run of digits is a token, and abc123 yields
\* abc and 123.
C16_RunsAreTokens ==
    Returned =>
        /\ (AsciiText /\ PlainText) =>
              \A i \in 1..Len(Text), j \in 1..Len(Text) :
                  (\/ IsMaximalRun(Text, i, j, Letters \cup {EAcute, "_"})
                   \/ IsMaximalRun(Text, i, j, Digits))
                      => SubSeq(Text, i, j) \in Range(out.val)
        /\ string = Q_abc123 =>
              out.val = << <<"a", "b", "c">>, <<"1", "2", "3">> >>

\* The index of the first character c of s from index i, or Len(s) + 1.
RECURSIVE IndexFrom(_, _, _)
IndexFrom(s, c, i) ==
    IF i > Len(s) \/ s[i] = c THEN i ELSE IndexFrom(s, c, i + 1)

\* The text between the first quote and the next one, or the end of the text.
FirstQuoted ==
    LET open == IndexFrom(Text, "'", 1)
    IN  SubSeq(Text, open + 1, IndexFrom(Text, "'", open + 1) - 1)

\* C17, as claimed: in a text of one-byte characters with no parenthesized
\* span, the text between the first quote and the next one (or the end of
\* the text) is a token, and no token holds a quote.
C17_QuotedSpanIsOneToken ==
    (Returned /\ AsciiText /\ "'" \in Range(Text) /\ "(" \notin Range(Text)) =>
        /\ FirstQuoted # <<>> => FirstQuoted \in Range(out.val)
        /\ \A t \in Range(out.val) : "'" \notin Range(t)

\* The text has one opening and one closing parenthesis, in this order, and
\* no quote.
OneParenSpan ==
    /\ "'" \notin Range(Text)
    /\ Cardinality({i \in 1..Len(Text) : Text[i] = "("}) = 1
    /\ Cardinality({i \in 1..Len(Text) : Text[i] = ")"}) = 1
    /\ IndexFrom(Text, "(", 1) < IndexFrom(Text, ")", 1)

\* The text between the parentheses.
Parenthesized ==
    SubSeq(Text, IndexFrom(Text, "(", 1) + 1, IndexFrom(Text, ")", 1) - 1)

\* C18, as claimed: in a text of one-byte characters the interior of a
\* parenthesized span is a token, and no token holds the span's parentheses.
C18_ParenSpanIsOneToken ==
    (Returned /\ AsciiText /\ OneParenSpan) =>
        /\ Parenthesized # <<>> => Parenthesized \in Range(out.val)
        /\ \A t \in Range(out.val) : "(" \notin Range(t) /\ ")" \notin Range(t)

\* C19, as claimed: in a text of one-byte characters, outside quoted and
\* parenthesized spans, no token holds a comma or a whitespace character.
C19_SeparatorsNeverInTokens ==
    (Returned /\ AsciiText /\ PlainText) =>
        \A t \in Range(out.val) :
            \A c \in Range(t) : c # "," /\ ~is_whitespace(c)

----------------------------------------------------------------------------
(* Properties of Delete::apply_to_table (specification SpecDelete).        *)

\* The columns of the table file.
Header == split(table[1])

\* The values of line i of the table file.
ValuesOf(i) == split(table[i])

\* Every line after the header holds a value for every column.
CompleteLines == \A i \in 2..Len(table) : Len(ValuesOf(i)) >= Len(Header)

\* The row of line i: each column with the value at the column's place (the
\* last place, for a name the header repeats).
RowOf(i) ==
    [col \in Range(Header) |->
        ValuesOf(i)[CHOOSE k \in 1..Len(Header) :
                        /\ Header[k] = col
                        /\ \A l \in (k + 1)..Len(Header) : Header[l] # col]]

\* The rows of the table file in order.
Rows == [i \in 1..(Len(table) - 1) |-> RowOf(i + 1)]

\* What the WHERE condition evaluates to on a row.
Verdict(row) == execute(cond.val, row)

\* The first row on which the evaluation of the condition fails.
FirstFailure ==
    Rows[CHOOSE i \in 1..Len(Rows) :
            /\ ~Verdict(Rows[i]).ok
            /\ \A j \in 1..(i - 1) : Verdict(Rows[j]).ok]

\* C20: on a table file whose lines each hold a value for every column,
\* Delete::apply_to_table returns the columns and, in order, exactly the rows
\* on which the WHERE condition is false; with no WHERE clause it returns
\* the columns and no row; when the evaluation fails on a row it returns
\* that error.
C20_DeleteKeepsFalseRows ==
    (out # Pending /\ table # <<>>) =>
        IF cond = NoWhere
        THEN out = Ok(Table(Header, <<>>))
        ELSE CompleteLines =>
                IF \E i \in 1..Len(Rows) : ~Verdict(Rows[i]).ok
                THEN out = Verdict(FirstFailure)
                ELSE out = Ok(Table(Header,
                                    SelectSeq(Rows, LAMBDA row : ~Verdict(row).val)))

\* DELETE ... WHERE a > 3 has been applied to a table of two columns with
\* the lines 5,y and 1,x: the first is deleted and the second is returned.
C20_Witness ==
    /\ cond = Ok(Simple(<<"a">>, Greater, <<"3">>))
    /\ table = << <<"a", ",", "b">>, <<"5", ",", "y">>, <<"1", ",", "x">> >>
    /\ out.ok
    /\ Len(out.val.registers) = 1
    /\ out.val.registers[1][<<"a">>] = <<"1">>

----------------------------------------------------------------------------
(* Properties of Update::apply_to_table (specification SpecUpdate).        *)

\* The columns the SET clause names.
SetColumns == {statement.set_clause[i][1] : i \in 1..Len(statement.set_clause)}

\* The value the SET clause gives a column: the one of its last pair for it.
NewValue(col) ==
    LET sc == statement.set_clause
    IN  sc[CHOOSE i \in 1..Len(sc) :
                /\ sc[i][1] = col
                /\ \A j \in (i + 1)..Len(sc) : sc[j][1] # col][2]

\* The condition evaluates on every row of the table file.
EveryRowEvaluates ==
    cond # NoWhere => \A i \in 1..Len(Rows) : Verdict(Rows[i]).ok

\* C21: on a table file whose lines each hold a value for every column and
\* on whose rows the condition evaluates, Update::apply_to_table returns the
\* columns and as many rows, in order: a row on which the WHERE condition is
\* true, and every row when there is no WHERE clause, with each SET column
\* holding its new value and every other column unchanged; a row on which
\* the condition is false unchanged.
C21_UpdateKeepsRows ==
    (out # Pending /\ table # <<>> /\ CompleteLines /\ EveryRowEvaluates) =>
        /\ out.ok
        /\ out.val.columns = Header
        /\ Len(out.val.registers) = Len(Rows)
        /\ \A i \in 1..Len(Rows) :
              LET old == Rows[i]
                  new == out.val.registers[i]
              IN  IF cond = NoWhere \/ Verdict(old).val
                  THEN /\ DOMAIN new = DOMAIN old \cup SetColumns
                       /\ \A col \in SetColumns : new[col] = NewValue(col)
                       /\ \A col \in DOMAIN old \ SetColumns : new[col] = old[col]
                  ELSE new = old

\* UPDATE ... SET a = 7 WHERE a > 3 has been applied to a table of two
\* columns with the lines 5,y and 1,x: the first row has a = 7 and keeps
\* b = y, the second one is unchanged.
C21_Witness ==
    /\ cond = Ok(Simple(<<"a">>, Greater, <<"3">>))
    /\ statement = [set_clause |-> << <<<<"a">>, <<"7">>>> >>]
    /\ table = << <<"a", ",", "b">>, <<"5", ",", "y">>, <<"1", ",", "x">> >>
    /\ out.ok
    /\ Len(out.val.registers) = 2
    /\ out.val.registers[1][<<"a">>] = <<"7">>
    /\ out.val.registers[1][<<"b">>] = <<"y">>
    /\ out.val.registers[2][<<"a">>] = <<"1">>

----------------------------------------------------------------------------
(* Properties of Insert::reorder_values (specification SpecInsert).        *)

\* The columns of the table and the INTO columns of the statement.
TableColumns == first_line_columns(table)
IntoColumns == statement.into_clause.columns

\* The first place of a column in the INTO list.
PlaceOf(col) ==
    CHOOSE i \in 1..Len(IntoColumns) :
        IntoColumns[i] = col /\ \A j \in 1..(i - 1) : IntoColumns[j] # col

\* VALUES holds a value at the place of every table column that INTO names.
ValuesSupplied ==
    \A col \in Range(TableColumns) \cap Range(IntoColumns) :
        PlaceOf(col) <= Len(statement.values)

\* The orders of 1..n.
Orders(n) ==
    {p \in [1..n -> 1..n] : \A i \in 1..n, j \in 1..n : p[i] = p[j] => i = j}

\* The statement with its column and value pairs listed in another order.
Relisted(p) ==
    InsertOf([i \in 1..Len(p) |-> statement.values[p[i]]],
             [i \in 1..Len(p) |-> IntoColumns[p[i]]])

\* The statement pairs each of its columns, all different, with a value.
DistinctPairs ==
    /\ Len(statement.values) = Len(IntoColumns)
    /\ Cardinality(Range(IntoColumns)) = Len(IntoColumns)

\* C22: when VALUES holds a value at the place of every named table column,
\* the values left by reorder_values and written as the new last line are one
\* per table column, in the table's order: the value at the column's place in
\* the INTO list for a named column, the empty string for any other; and
\* they are the same for every order in which the pairs of distinct columns
\* and values are listed.
C22_ReorderedValues ==
    [][(InsertApplyToTable /\ ValuesSupplied) =>
          /\ out' = Ok(<<>>)
          /\ Len(statement'.values) = Len(TableColumns)
          /\ \A k \in 1..Len(TableColumns) :
                statement'.values[k] =
                    IF TableColumns[k] \in Range(IntoColumns)
                    THEN statement.values[PlaceOf(TableColumns[k])]
                    ELSE <<>>
          /\ table' = Append(table, join(statement'.values))
          /\ DistinctPairs =>
                \A p \in Orders(Len(IntoColumns)) :
                    reorder_values(Relisted(p), TableColumns) = Ok(statement')]_vars

\* INSERT INTO t (c, a) VALUES (x, 1) has been applied to the table a,b,c:
\* the line 1,,x has been written.
C22_Witness ==
    /\ table = << <<"a", ",", "b", ",", "c">>, <<"1", ",", ",", "x">> >>
    /\ statement = InsertOf(<< <<"1">>, <<>>, <<"x">> >>,
                            << <<"a">>, <<"b">>, <<"c">> >>)
    /\ out = Ok(<<>>)

----------------------------------------------------------------------------
(* The shape of parsed trees (specification SpecWhere).                    *)

\* Every Not node of the tree has no left operand and every And and Or node
\* has one.
RECURSIVE WellShaped(_)
WellShaped(c) ==
    IF c.type = "Simple" THEN TRUE
    ELSE /\ c.operator = Not => c.left = None
         /\ c.operator \in {And, Or} => c.left # None /\ WellShaped(c.left)
         /\ WellShaped(c.right)

\* The fields the leaves of the tree compare.
RECURSIVE FieldsOf(_)
FieldsOf(c) ==
    IF c = None THEN {}
    ELSE IF c.type = "Simple" THEN {c.field}
    ELSE FieldsOf(c.left) \cup FieldsOf(c.right)

\* C23: every tree the parser returns has the shape of its operators: no
\* left operand under Not, a left operand under And and Or; and evaluating
\* it fails with the missing-data error only when one of its fields is
\* absent from the row.
C23_ParsedTreesAreWellShaped ==
    cond.ok =>
        /\ WellShaped(cond.val)
        /\ result = Err(Error) => \E f \in FieldsOf(cond.val) : f \notin DOMAIN register

\* NOT a AND c has been parsed into an And node over a Not node and
\* evaluated on a row without the field of c: the missing-data error.
C23_Witness ==
    /\ tokens = Clause(<<T_NOT>> \o SimpleA \o <<T_AND>> \o SimpleC)
    /\ cond.ok
    /\ cond.val.operator = And
    /\ cond.val.left.operator = Not
    /\ cond.val.left.left = None
    /\ S_city \notin DOMAIN register
    /\ result = Err(Error)

----------------------------------------------------------------------------
(* Numeric classification (specification SpecLimits).                      *)

\* The string without its leading zeros.
RECURSIVE StripZeros(_)
StripZeros(ds) ==
    IF ds # <<>> /\ Head(ds) = "0" THEN StripZeros(Tail(ds)) ELSE ds

\* The string is an optional sign and decimal digits that write an integer
\* from -2147483648 to 2147483647: by the number of its digits, and digit by
\* digit against the limit when it has ten.
FitsI32(s) ==
    LET signed == s # <<>> /\ Head(s) \in {"+", "-"}
        ds == IF signed THEN Tail(s) ELSE s
        sig == StripZeros(ds)
        limit == IF signed /\ Head(s) = "-" THEN Tail(N_min) ELSE N_max
    IN  /\ ds # <<>>
        /\ \A i \in 1..Len(ds) : ds[i] \in Digits
        /\ \/ Len(sig) < Len(limit)
           \/ Len(sig) = Len(limit) /\ ~LexLess(limit, sig)

\* C24: a side is numeric exactly when it writes a 32-bit signed integer: a
\* comparison with exactly one such side fails with InvalidSyntax and any
\* other succeeds by string ordering; so 2147483648 against 5 fails,
\* 99999999999 against 2147483648 succeeds, and -5 and +5 against 5 succeed.
C24_NumericIsI32 ==
    (Executed /\ WellFormedTokens /\ FieldInRow) =>
        LET x == RowValue
            y == Literal
            op == Root.operator
            ordered == CASE op = Lesser -> LexLess(x, y)
                         [] op = Greater -> LexLess(y, x)
                         [] op = Equal -> x = y
        IN  /\ result = IF FitsI32(x) = FitsI32(y) THEN Ok(ordered)
                        ELSE Err(InvalidSyntax)
            /\ (x = N_over /\ y = N_5) => result = Err(InvalidSyntax)
            /\ (x = N_under /\ y = N_5) => result = Err(InvalidSyntax)
            /\ (x = N_huge /\ y = N_over) => result = Ok(ordered)
            /\ (x \in {N_minus5, N_plus5, N_max, N_min} /\ y = N_5) => result = Ok(ordered)

\* age > 2147483648 has been evaluated against a row where age is
\* 99999999999: both are out of range and the string order decides.
C24_Witness ==
    /\ Executed
    /\ RowValue = N_huge
    /\ Literal = N_over
    /\ Root.operator = Greater
    /\ result = Ok(TRUE)

----------------------------------------------------------------------------
(* Termination of the tokenizer (specification FairSpecTokens).            *)

\* A pass of the main loop of tokens_from_query.
LoopPass == NextTokens /\ ~Retain

\* C25: every pass of the main loop starts at an index below the length of
\* the text and strictly increases the index, and tokens_from_query
\* eventually returns its tokens.
C25_TokenizerTerminates ==
    /\ [][LoopPass => (index < length /\ index' > index)]_vars
    /\ <>Returned

\* The statement DELETE FROM t WHERE a='b c'; has been tokenized to its end.
C25_Witness ==
    /\ string = Q_Delete
    /\ Returned
    /\ index >= length

----------------------------------------------------------------------------
(* The tokens are pieces of the text (specification SpecTokens).           *)

\* The tokens are contiguous pieces of s, in this order and without overlap,
\* from character i on.
RECURSIVE PiecesOf(_, _, _)
PiecesOf(toks, s, i) ==
    \/ toks = <<>>
    \/ \E j \in i..(Len(s) - Len(Head(toks)) + 1) :
          /\ SubSeq(s, j, j + Len(Head(toks)) - 1) = Head(toks)
          /\ PiecesOf(Tail(toks), s, j + Len(Head(toks)))

\* C26, as claimed: the tokens returned are contiguous pieces of the text
\* without its semicolons, in the order of the text and without overlap, and
\* every character of a token is a character of the text, for texts with
\* characters of more than one byte too.
C26_TokensArePiecesOfText ==
    Returned =>
        /\ PiecesOf(out.val, Text, 1)
        /\ \A t \in Range(out.val) : Range(t) \subseteq Range(Text)

----------------------------------------------------------------------------
(* The opening parenthesis as a token (specification SpecTokens).          *)

\* C27, as claimed: no token returned is equal to "(".
C27_NeverEmitsOpeningMarker ==
    Returned => \A t \in Range(out.val) : ~is_left_paren(t)

\* An opening parenthesis directly follows another one.
AdjacentOpenings ==
    \E i \in 1..(Len(Text) - 1) : Text[i] = "(" /\ Text[i + 1] = "("

\* C27, amended: for a text with no quote and no opening parenthesis directly
\* after another one, no token returned is equal to "(", and a token is
\* equal to "(" only when a quoted or parenthesized span holds exactly that
\* character.
C27_OpeningMarkerOnlyFromSpan ==
    Returned =>
        /\ ("'" \notin Range(Text) /\ ~AdjacentOpenings) =>
              \A t \in Range(out.val) : ~is_left_paren(t)
        /\ (\E t \in Range(out.val) : is_left_paren(t)) =>
              \E i \in 1..(Len(Text) - 1) :
                  Text[i] \in {"'", "("} /\ Text[i + 1] = "("

\* The text (a)a has been tokenized to a and a.
C27_Witness ==
    /\ Returned
    /\ Text = <<"(", "a", ")", "a">>
    /\ out.val = << <<"a">>, <<"a">> >>

----------------------------------------------------------------------------
(* Properties of the statement parsers (specifications SpecSelect,         *)
(* SpecOrderBy and SpecDeleteTokens).                                      *)

\* The statement parser has returned or aborted.
Parsed == out # Pending

\* C28, as claimed: Select::new_from_tokens reads no token at or beyond
\* tokens.len(): for every token sequence it returns Ok or
\* Err(InvalidSyntax), also for four or more tokens that start with SELECT
\* and hold no FROM or end with FROM.
C28_SelectNeverReadsPastEnd ==
    Parsed => (out.ok \/ out = Err(InvalidSyntax))

\* C29, as claimed: OrderBy::new_from_tokens returns Err(InvalidSyntax) unless
\* the first token is ORDER and the second is BY.
C29_OrderByNeedsBothKeywords ==
    (Parsed /\ Len(tokens) >= MinOrderByTokens) =>
        (~(is_order(tokens[1]) /\ is_by(tokens[2])) => out = Err(InvalidSyntax))

\* C30, as claimed: Delete::new_from_tokens yields no where_clause only for
\* the three tokens DELETE FROM <table>; with more tokens it yields a parsed
\* WHERE clause or fails with InvalidSyntax.
C30_DeleteWithoutWhereIsThreeTokens ==
    Parsed =>
        /\ (out.ok /\ out.val.where_clause = NoWhere) => Len(tokens) = MinDeleteTokens
        /\ Len(tokens) > MinDeleteTokens =>
              \/ out = Err(InvalidSyntax)
              \/ out.ok /\ out.val.where_clause.ok

====
